---- MODULE Spec2Model ----
(***************************************************************************)
(* Model of the calendar CSP solver of src/src/csp_solver.py: solve builds *)
(* one hourly domain per meeting, prunes it with node consistency and      *)
(* AC-3, and runs a recursive backtracking search over the pruned domains. *)
(*                                                                         *)
(* A datetime is the integer 24 * date + hour, so that the integer order   *)
(* is the chronological order.  A constraint is a record                   *)
(*   [L_VAL, OP, R_VAL, R_INT, ARITY]                                      *)
(* where R_INT stands for isinstance(R_VAL, int): R_VAL is a meeting index *)
(* when R_INT holds and a datetime otherwise.  Binary constraints relate   *)
(* two distinct meetings.  Constraints, and so arcs, are equal when their  *)
(* fields are equal.                                                       *)
(*                                                                         *)
(* The search is modelled frame by frame: stack holds, for each active     *)
(* call of recursive_backtracker, the variable it selected, the values its *)
(* loop has not tried yet and the assignment as it was when the call was   *)
(* entered.  domain_ref tells which meetings share one set object.         *)
(***************************************************************************)
EXTENDS Integers, Sequences, FiniteSets, TLC

\* ------------------------------------------------------------------ bounds
MaxMeetings == 2
MaxDates == 1
MaxConstraints == 2

\* range(24) of solve
HoursPerDay == 24

\* the value None, where an int or a datetime is expected
None == -1

Ops == {"==", "!=", "<", ">", "<=", ">="}

\* hours (of date 0) the unary constraints of the inputs compare against
UnaryHours == {0, 1, 23}

\* ------------------------------------------------- DateConstraint (collaborator)
Compare(op, a, b) ==
    CASE op = "==" -> a = b
      [] op = "!=" -> a # b
      [] op = "<"  -> a < b
      [] op = ">"  -> a > b
      [] op = "<=" -> a <= b
      [] op = ">=" -> a >= b

ReverseOp(op) ==
    CASE op = "==" -> "=="
      [] op = "!=" -> "!="
      [] op = "<"  -> ">"
      [] op = ">"  -> "<"
      [] op = "<=" -> ">="
      [] op = ">=" -> "<="

DateConstraint(l, op, r, rint) ==
    [L_VAL |-> l, OP |-> op, R_VAL |-> r, R_INT |-> rint,
     ARITY |-> IF rint THEN 2 ELSE 1]

arity(c) == c.ARITY

is_satisfied_by_values(c, left_date, right_date) ==
    Compare(c.OP, left_date, IF c.ARITY = 2 THEN right_date ELSE c.R_VAL)

get_reverse(c) == DateConstraint(c.R_VAL, ReverseOp(c.OP), c.L_VAL, TRUE)

\* ------------------------------------------------------------------ inputs
RECURSIVE SetsUpTo(_, _)
SetsUpTo(U, k) ==
    IF k = 0 THEN {{}}
    ELSE LET P == SetsUpTo(U, k - 1)
         IN  P \cup {s \cup {a} : s \in P, a \in U}

UnaryConstraints(n) ==
    {DateConstraint(l, op, h, FALSE) : l \in 0..(n - 1), op \in Ops, h \in UnaryHours}

BinaryConstraints(n) ==
    {DateConstraint(l, op, r, TRUE) :
        l \in 0..(n - 1), op \in Ops, r \in (0..(n - 1))} \
    {DateConstraint(l, op, l, TRUE) : l \in 0..(n - 1), op \in Ops}

ConstraintSets(n) ==
    SetsUpTo(UnaryConstraints(n) \cup BinaryConstraints(n), MaxConstraints)

\* date_range of the solve calls: midnights, a day apart
DateRanges == SUBSET {d * HoursPerDay : d \in 0..(MaxDates - 1)}

\* times of day of the datetimes a caller may put in date_range
InputTimes == {0, 12}

\* date_range of the domain-building calls: any datetimes of the first days
InputDateTimes == {d * HoursPerDay + t : d \in 0..MaxDates, t \in InputTimes}

VARIABLES
    n_meetings,   \* solve's n_meetings
    date_range,   \* solve's date_range, a set of dates
    constraints,  \* solve's constraints
    domains,      \* solve's domains: meeting index -> set of datetimes
    pc,           \* position in solve / node_consistency / arc_consistency / search
    set_domain,   \* loop index of node_consistency
    arc_set,      \* worklist of arc_consistency
    assignment,   \* the list shared by all recursive_backtracker frames
    stack,        \* the active recursive_backtracker frames, innermost last
    ret,          \* value returned by the last recursive_backtracker call
    returned,     \* what solve returned: "pending", "None" or "list"
    result,       \* the list solve returned
    phase,        \* "solve", or "raw" while searching the unpruned domains
    raw_ret,      \* outcome of the search on the unpruned domains
    raw_solution, \* assignment found by the search on the unpruned domains
    domain_ref,   \* meeting index -> identity of the set object holding its domain
    last_arc,     \* arc_consistency's curr_arc: the arc popped last
    removed,      \* what remove_inconsistent_values returned for curr_arc
    requeues      \* how often arc_consistency ran its re-enqueue loop

\* the locals of arc_consistency
arc_locals == <<last_arc, removed, requeues>>

\* what only solve_build and arc_consistency write
aux == <<domain_ref, arc_locals>>

vars == <<n_meetings, date_range, constraints, domains, pc, set_domain, arc_set,
          assignment, stack, ret, returned, result, phase, raw_ret, raw_solution,
          domain_ref, last_arc, removed, requeues>>

\* -------------------------------------------------------------------- solve
\* datetime.combine(date, time(hour)): the time of day of `date` is ignored
combine(date, hour) == (date \div HoursPerDay) * HoursPerDay + hour

\* the loop of lines 55-59 with range(1, 24)
new_date_range_from_one(dr) == {combine(d, h) : d \in dr, h \in 1..(HoursPerDay - 1)}

\* lines 55-59: every date expanded into its 24 hourly datetimes
new_date_range(dr) == {combine(d, h) : d \in dr, h \in 0..(HoursPerDay - 1)}

\* line 60: one copy of the pool per meeting
build_domains(n, dr) == [i \in 0..(n - 1) |-> new_date_range(dr)]

\* line 60 without .copy(): every meeting holds the one set object
build_refs_shared(n) == [i \in 0..(n - 1) |-> 0]

\* line 60: new_date_range.copy() gives every meeting a set object of its own
build_refs(n) == [i \in 0..(n - 1) |-> i]

\* an in-place update of meeting i's set object (difference_update, remove):
\* every meeting holding the same object sees it
store(doms, refs, i, new_domain) ==
    [j \in DOMAIN doms |-> IF refs[j] = refs[i] THEN new_domain ELSE doms[j]]

\* list(range(n_meetings))
variables == [k \in 1..n_meetings |-> k - 1]

\* ------------------------------------------------------------ the search
\* select_unassigned_variable scanning the variables from the last one
select_last_unassigned(vs, asg) ==
    LET assigned == {asg[k][1] : k \in 1..Len(asg)}
        free == {k \in 1..Len(vs) : vs[k] \notin assigned}
    IN  IF free = {} THEN None
        ELSE vs[CHOOSE k \in free : \A j \in free : k >= j]

\* select_unassigned_variable scanning from the second variable, the first last
select_from_second(vs, asg) ==
    LET assigned == {asg[k][1] : k \in 1..Len(asg)}
        free == {k \in 1..Len(vs) : vs[k] \notin assigned}
        later == {k \in free : k > 1}
    IN  IF free = {} THEN None
        ELSE IF later = {} THEN vs[1]
        ELSE vs[CHOOSE k \in later : \A j \in later : k <= j]

select_unassigned_variable(vs, asg) ==
    LET assigned == {asg[k][1] : k \in 1..Len(asg)}
        free == {k \in 1..Len(vs) : vs[k] \notin assigned}
    IN  IF free = {} THEN None
        ELSE vs[CHOOSE k \in free : \A j \in free : k <= j]

\* sorted(domain, reverse=True)
order_descending(domain) ==
    [k \in 1..Cardinality(domain) |->
        CHOOSE v \in domain : Cardinality({w \in domain : w > v}) = k - 1]

\* sorted(domain): the k-th element has k - 1 smaller elements
order_domain_values(domain) ==
    [k \in 1..Cardinality(domain) |->
        CHOOSE v \in domain : Cardinality({w \in domain : w < v}) = k - 1]

\* right_date that never resolves a variable on the right
right_date_unresolved(asg, c) ==
    IF c.ARITY = 2 /\ ~c.R_INT THEN c.R_VAL ELSE None

\* right_date of is_consistent (lines 175-183)
right_date_of(asg, c) ==
    IF c.ARITY = 2
    THEN IF c.R_INT
         THEN IF Len(asg) > c.R_VAL THEN asg[c.R_VAL + 1][2] ELSE None
         ELSE c.R_VAL
    ELSE None

\* is_consistent without the `continue` on an unassigned right variable
is_consistent_no_skip(asg, cs) ==
    \A c \in cs :
        \/ c.L_VAL >= Len(asg)
        \/ is_satisfied_by_values(c, asg[c.L_VAL + 1][2], right_date_of(asg, c))

\* is_consistent looking at the binary constraints alone
is_consistent_binary_only(asg, cs) ==
    \A c \in cs :
        \/ c.L_VAL >= Len(asg)
        \/ c.ARITY = 1
        \/ LET left_date == asg[c.L_VAL + 1][2]
               right_date == right_date_of(asg, c)
           IN  \/ right_date = None /\ c.ARITY = 2
               \/ is_satisfied_by_values(c, left_date, right_date)

is_consistent(asg, cs) ==
    \A c \in cs :
        \/ c.L_VAL >= Len(asg)
        \/ LET left_date == asg[c.L_VAL + 1][2]
               right_date == right_date_of(asg, c)
           IN  \/ right_date = None /\ c.ARITY = 2
               \/ is_satisfied_by_values(c, left_date, right_date)

\* --------------------------------------------------------- node consistency
\* to_remove without the test of the constraint's variable
to_remove_any_variable(doms, cs, i) ==
    {v \in doms[i] : \E c \in cs : /\ arity(c) = 1
                                   /\ ~is_satisfied_by_values(c, v, None)}

\* to_remove of one iteration of the outer loop (lines 223-229)
to_remove(doms, cs, i) ==
    {v \in doms[i] : \E c \in cs : /\ arity(c) = 1
                                   /\ c.L_VAL = i
                                   /\ ~is_satisfied_by_values(c, v, None)}

\* ---------------------------------------------------------- arc consistency
\* Arc.__init__ without the isinstance test
arc_never_raises(c) == FALSE

\* Arc.__init__ raises ValueError (line 270)
ArcRaises(c) == ~c.R_INT

Arc(c) == [CONSTRAINT |-> c, TAIL |-> c.L_VAL, HEAD |-> c.R_VAL]

\* last_arc before arc_consistency's first pop and after its return
NoArc == [CONSTRAINT |-> DateConstraint(None, "==", None, TRUE),
          TAIL |-> None, HEAD |-> None]

\* some Arc(...) of initialize_arcs raises
initialize_arcs_raises(cs) ==
    \E c \in cs : c.ARITY = 2 /\ (ArcRaises(c) \/ ArcRaises(get_reverse(c)))

initialize_arcs(cs) ==
    UNION {{Arc(c), Arc(get_reverse(c))} : c \in {d \in cs : d.ARITY = 2}}

\* the revise with the constraint evaluated as (head value, tail value)
remove_values_swapped(doms, curr_arc) ==
    LET tail_domain == doms[curr_arc.TAIL]
        head_domain == doms[curr_arc.HEAD]
        kept == {tail_val \in tail_domain :
                    \E head_val \in head_domain :
                        is_satisfied_by_values(curr_arc.CONSTRAINT, head_val, tail_val)}
    IN  [domains |-> [doms EXCEPT ![curr_arc.TAIL] = kept],
         removed |-> kept # tail_domain]

\* the revise asking for every head value to support a tail value
remove_values_all_heads(doms, curr_arc) ==
    LET tail_domain == doms[curr_arc.TAIL]
        head_domain == doms[curr_arc.HEAD]
        kept == {tail_val \in tail_domain :
                    \A head_val \in head_domain :
                        is_satisfied_by_values(curr_arc.CONSTRAINT, tail_val, head_val)}
    IN  [domains |-> [doms EXCEPT ![curr_arc.TAIL] = kept],
         removed |-> kept # tail_domain]

\* the revise storing the surviving tail values in the head's domain
remove_values_into_head(doms, curr_arc) ==
    LET tail_domain == doms[curr_arc.TAIL]
        head_domain == doms[curr_arc.HEAD]
        kept == {tail_val \in tail_domain :
                    \E head_val \in head_domain :
                        is_satisfied_by_values(curr_arc.CONSTRAINT, tail_val, head_val)}
    IN  [domains |-> [doms EXCEPT ![curr_arc.HEAD] = kept],
         removed |-> kept # tail_domain]

\* the revise returning True whatever it removed
remove_values_reports_true(doms, curr_arc) ==
    LET tail_domain == doms[curr_arc.TAIL]
        head_domain == doms[curr_arc.HEAD]
        kept == {tail_val \in tail_domain :
                    \E head_val \in head_domain :
                        is_satisfied_by_values(curr_arc.CONSTRAINT, tail_val, head_val)}
    IN  [domains |-> [doms EXCEPT ![curr_arc.TAIL] = kept],
         removed |-> TRUE]

\* the tail's domain after the revise, and the flag the function returns
remove_inconsistent_values(doms, curr_arc) ==
    LET tail_domain == doms[curr_arc.TAIL]
        head_domain == doms[curr_arc.HEAD]
        kept == {tail_val \in tail_domain :
                    \E head_val \in head_domain :
                        is_satisfied_by_values(curr_arc.CONSTRAINT, tail_val, head_val)}
    IN  [domains |-> [doms EXCEPT ![curr_arc.TAIL] = kept],
         removed |-> kept # tail_domain]

get_arcs_for_variable(variable, cs) ==
    {Arc(c) : c \in {d \in cs : d.ARITY = 2 /\ d.R_VAL = variable}}

\* ------------------------------------------------------------------ actions
\* nothing built, nothing returned
InitRest ==
    /\ domains = <<>>
    /\ set_domain = 0
    /\ arc_set = {}
    /\ assignment = <<>>
    /\ stack = <<>>
    /\ ret = "pending"
    /\ returned = "pending"
    /\ result = <<>>
    /\ raw_ret = "pending"
    /\ raw_solution = <<>>
    /\ domain_ref = <<>>
    /\ last_arc = NoArc
    /\ removed = FALSE
    /\ requeues = 0

InitInputs ==
    /\ n_meetings \in 0..MaxMeetings
    /\ date_range \in DateRanges
    /\ constraints \in ConstraintSets(n_meetings)
    /\ pc = "start"
    /\ InitRest

Init == InitInputs /\ phase = "solve"

AfterBuild == IF n_meetings = 0 THEN "arc_init" ELSE "node"

\* solve, lines 55-60
solve_build ==
    /\ pc = "start"
    /\ domains' = build_domains(n_meetings, date_range)
    /\ domain_ref' = build_refs(n_meetings)
    /\ pc' = IF phase = "raw" THEN "call" ELSE AfterBuild
    /\ UNCHANGED <<arc_locals, n_meetings, date_range, constraints, set_domain, arc_set,
                   assignment, stack, ret, returned, result, phase, raw_ret,
                   raw_solution>>

\* one iteration of node_consistency's loop over the domains
node_consistency ==
    /\ pc = "node"
    /\ set_domain < Len(variables)
    /\ domains' = store(domains, domain_ref, set_domain,
                        domains[set_domain] \ to_remove(domains, constraints, set_domain))
    /\ set_domain' = set_domain + 1
    /\ pc' = IF set_domain + 1 = Len(variables) THEN "arc_init" ELSE "node"
    /\ UNCHANGED <<aux, n_meetings, date_range, constraints, arc_set, assignment, stack,
                   ret, returned, result, phase, raw_ret, raw_solution>>

\* arc_consistency, line 328
arc_consistency_init ==
    /\ pc = "arc_init"
    /\ arc_set' = IF initialize_arcs_raises(constraints) THEN {}
                  ELSE initialize_arcs(constraints)
    /\ pc' = IF initialize_arcs_raises(constraints) THEN "ValueError" ELSE "arc"
    /\ UNCHANGED <<aux, n_meetings, date_range, constraints, domains, set_domain,
                   assignment, stack, ret, returned, result, phase, raw_ret,
                   raw_solution>>

\* the loop adding the arcs of the tail whether or not a value was removed
arc_consistency_always_adds ==
    /\ pc = "arc"
    /\ \E arc \in arc_set :
          LET rev == remove_inconsistent_values(domains, arc)
          IN  /\ last_arc' = arc
              /\ removed' = rev.removed
              /\ domains' = store(rev.domains, domain_ref, arc.TAIL, rev.domains[arc.TAIL])
              /\ arc_set' = (arc_set \ {arc}) \cup
                             get_arcs_for_variable(arc.TAIL, constraints)
              /\ requeues' = requeues + 1
    /\ UNCHANGED <<domain_ref, n_meetings, date_range, constraints, pc, set_domain,
                   assignment, stack, ret, returned, result, phase, raw_ret,
                   raw_solution>>

\* one iteration of arc_consistency's loop; set.pop() takes any arc
arc_consistency ==
    /\ pc = "arc"
    /\ \E arc \in arc_set :
          LET rev == remove_inconsistent_values(domains, arc)
          IN  /\ last_arc' = arc
              /\ removed' = rev.removed
              /\ domains' = store(rev.domains, domain_ref, arc.TAIL, rev.domains[arc.TAIL])
              /\ arc_set' = IF rev.removed
                            THEN (arc_set \ {arc}) \cup
                                 get_arcs_for_variable(arc.TAIL, constraints)
                            ELSE arc_set \ {arc}
              /\ requeues' = IF rev.removed THEN requeues + 1 ELSE requeues
    /\ UNCHANGED <<domain_ref, n_meetings, date_range, constraints, pc, set_domain,
                   assignment, stack, ret, returned, result, phase, raw_ret,
                   raw_solution>>

\* arc_consistency returns; solve calls recursive_backtracker([], ...) (line 65)
arc_consistency_done ==
    /\ pc = "arc"
    /\ arc_set = {}
    /\ assignment' = <<>>
    /\ last_arc' = NoArc
    /\ removed' = FALSE
    /\ requeues' = 0
    /\ pc' = "call"
    /\ UNCHANGED <<domain_ref, n_meetings, date_range, constraints, domains, set_domain, arc_set,
                   stack, ret, returned, result, phase, raw_ret, raw_solution>>

\* entry of recursive_backtracker, lines 98-104
recursive_backtracker ==
    LET complete == Len(assignment) = Len(variables)
        next_var == select_unassigned_variable(variables, assignment)
        returns  == complete \/ next_var = None
    IN  /\ pc = "call"
        /\ ret' = IF complete THEN "found" ELSE IF returns THEN "None" ELSE ret
        /\ pc' = IF returns THEN "ret" ELSE "loop"
        /\ stack' = IF returns THEN stack
                    ELSE Append(stack,
                           [next_var |-> next_var,
                            values |-> order_domain_values(domains[next_var]),
                            entry |-> assignment])
        /\ UNCHANGED <<aux, n_meetings, date_range, constraints, domains, set_domain,
                       arc_set, assignment, returned, result, phase, raw_ret,
                       raw_solution>>

Top == stack[Len(stack)]

Pop(s) == SubSeq(s, 1, Len(s) - 1)

\* line 105: the next value of the loop is appended
backtracker_append ==
    /\ pc = "loop"
    /\ Top.values # <<>>
    /\ assignment' = Append(assignment, <<Top.next_var, Head(Top.values)>>)
    /\ stack' = [stack EXCEPT ![Len(stack)].values = Tail(@)]
    /\ pc' = "check"
    /\ UNCHANGED <<aux, n_meetings, date_range, constraints, domains, set_domain, arc_set,
                   ret, returned, result, phase, raw_ret, raw_solution>>

\* the check without the pop of line 110
backtracker_check_no_pop ==
    /\ pc = "check"
    /\ pc' = IF is_consistent(assignment, constraints) THEN "call" ELSE "loop"
    /\ UNCHANGED <<aux, n_meetings, date_range, constraints, domains, set_domain, arc_set,
                   assignment, stack, ret, returned, result, phase, raw_ret,
                   raw_solution>>

\* line 106, and line 110 when the check fails
backtracker_check ==
    /\ pc = "check"
    /\ IF is_consistent(assignment, constraints)
       THEN /\ pc' = "call"
            /\ assignment' = assignment
       ELSE /\ assignment' = Pop(assignment)
            /\ pc' = "loop"
    /\ UNCHANGED <<aux, n_meetings, date_range, constraints, domains, set_domain, arc_set,
                   stack, ret, returned, result, phase, raw_ret, raw_solution>>

\* the frame popping the assignment on success as well
backtracker_resume_always_pops ==
    /\ pc = "ret"
    /\ stack # <<>>
    /\ assignment' = Pop(assignment)
    /\ IF ret # "None"
       THEN /\ stack' = Pop(stack)
            /\ UNCHANGED <<ret, pc>>
       ELSE /\ ret' = "pending"
            /\ pc' = "loop"
            /\ stack' = stack
    /\ UNCHANGED <<aux, n_meetings, date_range, constraints, domains, set_domain, arc_set,
                   returned, result, phase, raw_ret, raw_solution>>

\* the frame leaving the pair in place after a failed recursive call
backtracker_resume_no_pop ==
    /\ pc = "ret"
    /\ stack # <<>>
    /\ IF ret # "None"
       THEN /\ stack' = Pop(stack)
            /\ UNCHANGED <<assignment, ret, pc>>
       ELSE /\ assignment' = assignment
            /\ ret' = "pending"
            /\ pc' = "loop"
            /\ stack' = stack
    /\ UNCHANGED <<aux, n_meetings, date_range, constraints, domains, set_domain, arc_set,
                   returned, result, phase, raw_ret, raw_solution>>

\* lines 107-110: the recursive call has returned to the frame on top
backtracker_resume ==
    /\ pc = "ret"
    /\ stack # <<>>
    /\ IF ret # "None"
       THEN /\ stack' = Pop(stack)
            /\ UNCHANGED <<assignment, ret, pc>>
       ELSE /\ assignment' = Pop(assignment)
            /\ ret' = "pending"
            /\ pc' = "loop"
            /\ stack' = stack
    /\ UNCHANGED <<aux, n_meetings, date_range, constraints, domains, set_domain, arc_set,
                   returned, result, phase, raw_ret, raw_solution>>

\* the exhausted loop returning the assignment instead of None
backtracker_fail_returns_assignment ==
    /\ pc = "loop"
    /\ Top.values = <<>>
    /\ stack' = Pop(stack)
    /\ ret' = "found"
    /\ pc' = "ret"
    /\ UNCHANGED <<aux, n_meetings, date_range, constraints, domains, set_domain, arc_set,
                   assignment, returned, result, phase, raw_ret, raw_solution>>

\* line 112: the loop is exhausted
backtracker_fail ==
    /\ pc = "loop"
    /\ Top.values = <<>>
    /\ stack' = Pop(stack)
    /\ ret' = "None"
    /\ pc' = "ret"
    /\ UNCHANGED <<aux, n_meetings, date_range, constraints, domains, set_domain, arc_set,
                   assignment, returned, result, phase, raw_ret, raw_solution>>

\* solve testing `solution is not None` instead of the truth of the list
solve_return_is_not_none ==
    /\ pc = "ret"
    /\ stack = <<>>
    /\ phase = "solve"
    /\ IF ret = "found"
       THEN /\ returned' = "list"
            /\ result' = [k \in 1..Len(assignment) |-> assignment[k][2]]
       ELSE /\ returned' = "None"
            /\ result' = <<>>
    /\ pc' = "done"
    /\ UNCHANGED <<aux, n_meetings, date_range, constraints, domains, set_domain, arc_set,
                   assignment, stack, ret, phase, raw_ret, raw_solution>>

\* solve, lines 65-70: `if solution` is false for None and for the empty list
solve_return ==
    /\ pc = "ret"
    /\ stack = <<>>
    /\ phase = "solve"
    /\ IF ret = "found" /\ assignment # <<>>
       THEN /\ returned' = "list"
            /\ result' = [k \in 1..Len(assignment) |-> assignment[k][2]]
       ELSE /\ returned' = "None"
            /\ result' = <<>>
    /\ pc' = "done"
    /\ UNCHANGED <<aux, n_meetings, date_range, constraints, domains, set_domain, arc_set,
                   assignment, stack, ret, phase, raw_ret, raw_solution>>

Next ==
    \/ solve_build
    \/ node_consistency
    \/ arc_consistency_init
    \/ arc_consistency
    \/ arc_consistency_done
    \/ recursive_backtracker
    \/ backtracker_append
    \/ backtracker_check
    \/ backtracker_resume
    \/ backtracker_fail
    \/ solve_return

Spec == Init /\ [][Next]_vars

\* -------------------------------------- the search on the unpruned domains
InitCompare == InitInputs /\ phase = "raw"

\* recursive_backtracker([], variables, domains, constraints) has returned on
\* the unpruned domains; solve's pruning and search follow on the same input
raw_return ==
    /\ pc = "ret"
    /\ stack = <<>>
    /\ phase = "raw"
    /\ raw_ret' = ret
    /\ raw_solution' = IF ret = "found" THEN assignment ELSE <<>>
    /\ assignment' = <<>>
    /\ ret' = "pending"
    /\ phase' = "solve"
    /\ pc' = AfterBuild
    /\ UNCHANGED <<aux, n_meetings, date_range, constraints, domains, set_domain, arc_set,
                   stack, returned, result>>

NextCompare == Next \/ raw_return

SpecCompare == InitCompare /\ [][NextCompare]_vars

\* ------------------------- solve on date ranges holding any times of day
InitDates ==
    /\ n_meetings \in 0..MaxMeetings
    /\ date_range \in SUBSET InputDateTimes
    /\ constraints \in SetsUpTo(UnaryConstraints(n_meetings) \cup
                                BinaryConstraints(n_meetings), 1)
    /\ pc = "start"
    /\ phase = "solve"
    /\ InitRest

SpecDates == InitDates /\ [][Next]_vars

\* ------------------------------------------- Arc(constraint) on its own
InitArc ==
    /\ n_meetings \in 1..MaxMeetings
    /\ date_range \in DateRanges
    /\ constraints \in {{c} : c \in UnaryConstraints(n_meetings) \cup
                                    BinaryConstraints(n_meetings)}
    /\ pc = "new_arc"
    /\ phase = "solve"
    /\ InitRest

\* Arc.__init__ applied to the one constraint of the input
arc_new ==
    /\ pc = "new_arc"
    /\ \E c \in constraints :
          /\ arc_set' = IF ArcRaises(c) THEN {} ELSE {Arc(c)}
          /\ pc' = IF ArcRaises(c) THEN "ValueError" ELSE "arc_made"
    /\ UNCHANGED <<aux, n_meetings, date_range, constraints, domains, set_domain,
                   assignment, stack, ret, returned, result, phase, raw_ret,
                   raw_solution>>

NextArc == arc_new

SpecArc == InitArc /\ [][NextArc]_vars

\* solve keeps running until it returns
FairSpec == Spec /\ WF_vars(Next)

\* ------------------------------------------------------------- properties
Pool == new_date_range(date_range)

Vars == 0..(n_meetings - 1)

\* a full assignment f (meeting -> datetime) satisfies every input constraint
Satisfies(f) ==
    \A c \in constraints :
        IF c.ARITY = 1
        THEN is_satisfied_by_values(c, f[c.L_VAL], None)
        ELSE is_satisfied_by_values(c, f[c.L_VAL], f[c.R_VAL])

Solutions == {f \in [Vars -> Pool] : Satisfies(f)}

\* the list solve returned, read as meeting -> datetime
Returned == [i \in Vars |-> result[i + 1]]

\* a list of (variable, value) pairs read as meeting -> datetime
AsFunction(asg) ==
    [i \in Vars |-> asg[CHOOSE k \in 1..Len(asg) : asg[k][1] = i][2]]

LexLeq(f, g) ==
    \/ f = g
    \/ \E i \in Vars : f[i] < g[i] /\ \A j \in Vars : j < i => f[j] = g[j]

Done == pc = "done"

Pruning == pc \in {"node", "arc_init", "arc"}

ArcConsistencyReturns == pc = "arc" /\ arc_set = {}

Searching == pc \in {"call", "loop", "check", "ret"}

HasUnary == \E c \in constraints : c.ARITY = 1

HasBinary == \E c \in constraints : c.ARITY = 2

\* C1: soundness -- whenever solve returns a list for n_meetings >= 1, every
\* unary constraint accepts the value of its L_VAL meeting and every binary
\* constraint accepts the pair (value of L_VAL, value of R_VAL).
C1_Soundness ==
    (Done /\ returned = "list" /\ n_meetings >= 1) =>
        \A c \in constraints :
            IF c.ARITY = 1
            THEN is_satisfied_by_values(c, result[c.L_VAL + 1], None)
            ELSE is_satisfied_by_values(c, result[c.L_VAL + 1], result[c.R_VAL + 1])

C1_Witness ==
    /\ Done /\ returned = "list" /\ n_meetings = 2
    /\ HasUnary /\ HasBinary
    /\ result[1] # result[2]

\* C2: completeness -- for n_meetings >= 1, if some full assignment over the
\* unpruned hourly domains satisfies every constraint then solve returns a
\* list, whatever order the worklist was popped in.
C2_Completeness ==
    (Done /\ n_meetings >= 1 /\ Solutions # {}) => returned = "list"

C2_Witness ==
    /\ Done /\ n_meetings = 2 /\ returned = "list"
    /\ HasBinary
    /\ \E i \in Vars : domains[i] # Pool
    /\ Cardinality(Solutions) < Cardinality(Pool) * Cardinality(Pool)

\* C3: unsatisfiability is a normal result -- a solve call on an input that
\* no full assignment satisfies runs to its return and returns None, with no
\* list.
C3_UnsatReturnsNone ==
    (pc = "start" /\ Solutions = {})
        ~> (Done /\ returned = "None" /\ result = <<>>)

C3_Witness ==
    /\ Done /\ returned = "None" /\ n_meetings = 2
    /\ Solutions = {}
    /\ Pool # {}
    /\ \A i \in Vars : domains[i] # {}

\* C4: pruning preserves solutions -- in every state of node consistency and
\* arc consistency, and when the search starts, every (meeting, value) pair of
\* every satisfying full assignment is still in that meeting's domain.
C4_PruningPreservesSolutions ==
    (Pruning \/ (pc = "call" /\ phase = "solve" /\ stack = <<>>)) =>
        \A f \in Solutions : \A i \in Vars : f[i] \in domains[i]

C4_Witness ==
    /\ pc = "call" /\ phase = "solve" /\ stack = <<>>
    /\ n_meetings = 2
    /\ Solutions # {}
    /\ \A i \in Vars : domains[i] # Pool
    /\ HasBinary /\ ~HasUnary

\* C5: arc-consistency fixpoint -- when arc_consistency returns, for every
\* binary constraint and both its forward and its reverse arc, every value
\* left in the tail's domain has a supporting value in the head's domain.
C5_ArcFixpoint ==
    ArcConsistencyReturns =>
        \A arc \in initialize_arcs(constraints) :
            \A v \in domains[arc.TAIL] :
                \E w \in domains[arc.HEAD] :
                    is_satisfied_by_values(arc.CONSTRAINT, v, w)

\* C6: result shape -- a list returned for n_meetings = n >= 1 has exactly n
\* values, the value at index i is the one the search assigned to meeting i,
\* and it belongs to meeting i's pruned domain and to the hourly pool.
C6_ResultShape ==
    (Done /\ returned = "list" /\ n_meetings >= 1) =>
        /\ Len(result) = n_meetings
        /\ \A i \in Vars :
              /\ \E k \in 1..Len(assignment) : assignment[k][1] = i
              /\ \A k \in 1..Len(assignment) :
                    assignment[k][1] = i => result[i + 1] = assignment[k][2]
              /\ result[i + 1] \in domains[i]
              /\ result[i + 1] \in Pool

C6_Witness ==
    /\ Done /\ returned = "list" /\ n_meetings = 2
    /\ Len(result) = 2
    /\ result[1] > result[2]

\* C7: first solution in lexicographic order -- a returned list is the
\* lexicographically smallest satisfying assignment over the unpruned domains
\* (meeting 0 first, values in chronological order); with no constraints every
\* meeting gets the earliest value of the pool.
C7_LexicographicallyFirst ==
    (Done /\ returned = "list") =>
        /\ Returned \in Solutions
        /\ \A f \in Solutions : LexLeq(Returned, f)
        /\ constraints = {} => \A i \in Vars : \A v \in Pool : result[i + 1] <= v

C7_Witness ==
    /\ Done /\ returned = "list" /\ n_meetings = 2
    /\ \E i \in Vars : \E v \in Pool : v < result[i + 1]
    /\ Cardinality(Solutions) > 1

\* C8: pruning equivalence -- recursive_backtracker on the unpruned domains
\* and on the node- and arc-consistent domains either both return None or
\* both return an assignment that satisfies every constraint.
C8_PruningEquivalence ==
    Done =>
        /\ raw_ret = ret
        /\ ret \in {"found", "None"}
        /\ ret = "found" =>
              /\ AsFunction(raw_solution) \in Solutions
              /\ AsFunction(assignment) \in Solutions

C8_Witness ==
    /\ Done /\ raw_ret = "found" /\ ret = "found" /\ n_meetings = 2
    /\ \E i \in Vars : domains[i] # Pool

\* C9: domain monotonicity -- every step of node consistency, of AC-3 and of
\* the search leaves each meeting's domain a subset of what it was, and the
\* steps of the search leave the domains as they are.
C9_DomainMonotonicity ==
    [][/\ DOMAIN domains \subseteq DOMAIN domains'
       /\ \A i \in DOMAIN domains : domains'[i] \subseteq domains[i]
       /\ Searching => domains' = domains]_vars

C9_Witness ==
    /\ pc = "arc" /\ n_meetings = 2
    /\ domains[0] # Pool /\ domains[1] # Pool
    /\ domains[0] # domains[1]
    /\ arc_set # {}
    /\ HasUnary

\* C10: assignment well-formedness -- in every state of the search no meeting
\* index appears twice in the assignment and its length never exceeds n.
C10_AssignmentWellFormed ==
    /\ Len(assignment) <= n_meetings
    /\ \A j, k \in 1..Len(assignment) :
          assignment[j][1] = assignment[k][1] => j = k

C10_Witness ==
    /\ pc = "check" /\ n_meetings = 2
    /\ Len(assignment) = 2
    /\ ~is_consistent(assignment, constraints)

\* the datetimes of the calendar dates of date_range, hour by hour
HourlySlots ==
    {v \in 0..(HoursPerDay * (MaxDates + 1) - 1) :
        \E d \in date_range : v \div HoursPerDay = d \div HoursPerDay}

DistinctDates ==
    \A a, b \in date_range : a # b => a \div HoursPerDay # b \div HoursPerDay

JustBuilt == pc \in {"node", "arc_init"} /\ set_domain = 0

\* C11: domain independence -- solve gives every meeting a set object of its
\* own, so a node-consistency step on meeting i and a revise of an arc
\* (tail -> head) change no domain but i's, respectively tail's.
C11_DomainIndependence ==
    [][/\ pc = "start" =>
             \A i, j \in DOMAIN domain_ref' : i # j => domain_ref'[i] # domain_ref'[j]
       /\ pc = "node" =>
             \A j \in DOMAIN domains : j # set_domain => domains'[j] = domains[j]
       /\ (pc = "arc" /\ pc' = "arc") =>
             \A j \in DOMAIN domains : j # last_arc'.TAIL => domains'[j] = domains[j]
      ]_vars

C11_Witness ==
    /\ pc = "arc" /\ removed /\ n_meetings = 2
    /\ domains[last_arc.TAIL] # Pool
    /\ domains[last_arc.HEAD] = Pool
    /\ HasUnary

C13_ArcConstruction ==
    pc \in {"ValueError", "arc_made"} =>
        \A c \in constraints :
            /\ (~c.R_INT \/ c.ARITY = 1) => pc = "ValueError" /\ arc_set = {}
            /\ (c.R_INT /\ c.ARITY = 2) =>
                  /\ pc = "arc_made"
                  /\ arc_set = {[CONSTRAINT |-> c, TAIL |-> c.L_VAL, HEAD |-> c.R_VAL]}

C13_Witness ==
    /\ pc = "ValueError" /\ arc_set = {}
    /\ \E c \in constraints : c.ARITY = 1 /\ c.L_VAL = 1

\* a frame of recursive_backtracker returns: its entry leaves the stack
FrameReturns == Len(stack') < Len(stack)

\* C14 as stated: every frame of recursive_backtracker, whether it returns a
\* solution or None, returns with the assignment at the length it had when
\* the frame was entered.
C14_PushPopSymmetry ==
    [][FrameReturns => Len(assignment') = Len(Top.entry)]_vars

\* C14, amended: a pushed pair is popped when is_consistent rejects it or when
\* the recursive call returns None, and a frame that returns None leaves the
\* assignment at its entry length; a frame that returns a solution returns
\* without popping, leaving the complete assignment of n_meetings pairs.
C14_PushPopOnFailure ==
    [][/\ (pc = "check" /\ pc' = "loop") => Len(assignment') = Len(Top.entry)
       /\ (pc = "ret" /\ pc' = "loop") => Len(assignment') = Len(Top.entry)
       /\ (FrameReturns /\ ret' = "None") => Len(assignment') = Len(Top.entry)
       /\ (FrameReturns /\ ret' # "None") =>
              /\ ret' = "found"
              /\ Len(assignment') = n_meetings
              /\ Len(assignment') > Len(Top.entry)
      ]_vars

\* the outermost frame has returned a solution of two meetings found under a
\* binary constraint: both pushed pairs are still on the assignment
C14_Witness ==
    /\ pc = "ret"
    /\ ret = "found"
    /\ stack = <<>>
    /\ n_meetings = 2
    /\ Len(assignment) = 2
    /\ HasBinary

\* C15: an invocation of recursive_backtracker that returns None leaves the
\* assignment holding the sequence of pairs it held on entry, and so does a
\* value rejected by is_consistent or undone after a failed recursive call.
C15_NoResidue ==
    [][/\ (FrameReturns /\ ret' = "None") => assignment' = Top.entry
       /\ (pc = "call" /\ pc' = "ret" /\ ret' = "None") => assignment' = assignment
       /\ (pc = "check" /\ pc' = "loop") => assignment' = Top.entry
       /\ (pc = "ret" /\ pc' = "loop") => assignment' = Top.entry
      ]_vars

\* the invocation for the second meeting has returned None after rejecting
\* values: the assignment holds the first meeting's pair alone, as on entry
C15_Witness ==
    /\ pc = "ret"
    /\ ret = "None"
    /\ Len(stack) = 1
    /\ n_meetings = 2
    /\ Len(assignment) = 1
    /\ assignment[1][1] = 0

\* one iteration of arc_consistency's loop has just run
Revised == pc = "arc" /\ pc' = "arc"

\* C16: after a revise of an arc (tail -> head) that removed a value, the
\* worklist holds every arc of the constraints whose head is that tail, the
\* forward arcs of the constraints with R_VAL = tail and the reverse arcs of
\* those with L_VAL = tail; after a revise that removed nothing, the worklist
\* is the old one without the revised arc.
C16_ReEnqueueRule ==
    [][Revised =>
          IF removed'
          THEN {a \in initialize_arcs(constraints) : a.HEAD = last_arc'.TAIL}
                   \subseteq arc_set'
          ELSE arc_set' = arc_set \ {last_arc'}
      ]_vars

\* the number of (meeting, value) pairs held by the domains
TotalValues(doms) ==
    Cardinality(UNION {{<<i, v>> : v \in doms[i]} : i \in DOMAIN doms})

\* the domains arc_consistency is called with: the pool without the values
\* the unary constraints reject
NodeConsistent ==
    [i \in Vars |->
        {v \in Pool : \A c \in constraints :
            (c.ARITY = 1 /\ c.L_VAL = i) => is_satisfied_by_values(c, v, None)}]

\* C17: arc_consistency, once called, empties its worklist and returns
\* whatever the order of the pops; an arc enters the worklist after
\* initialization only in a step that removes a domain value, and the
\* number of such steps plus the number of values left never exceeds the
\* number of values the domains held when arc_consistency was called.
C17_ArcTermination ==
    /\ (pc = "arc_init") ~> ArcConsistencyReturns
    /\ [](pc = "arc" =>
             requeues + TotalValues(domains) <= TotalValues(NodeConsistent))
    /\ [][(Revised /\ ~(arc_set' \subseteq arc_set)) =>
             TotalValues(domains') < TotalValues(domains)]_vars

\* arc_consistency returns after revises that removed values and put arcs
\* back on the worklist
C17_Witness ==
    /\ ArcConsistencyReturns
    /\ n_meetings = 2
    /\ requeues >= 2
    /\ TotalValues(domains) < TotalValues(NodeConsistent)

\* C18: a revise of the arc (tail -> head) leaves in the tail's domain the
\* values v that some value w of the head's domain supports, the constraint c
\* being read as c(v, w) on its forward arc and as c(w, v) on its reverse
\* arc; the head's domain is unchanged and the flag returned is true exactly
\* when the tail's domain lost a value.
C18_ReviseStep ==
    [][Revised =>
          LET tail == last_arc'.TAIL
              head == last_arc'.HEAD
          IN  /\ \A c \in constraints :
                    /\ (c.ARITY = 2 /\ last_arc' = Arc(c)) =>
                           domains'[tail] =
                               {v \in domains[tail] :
                                   \E w \in domains[head] : Compare(c.OP, v, w)}
                    /\ (c.ARITY = 2 /\ last_arc' = Arc(get_reverse(c))) =>
                           domains'[tail] =
                               {v \in domains[tail] :
                                   \E w \in domains[head] : Compare(c.OP, w, v)}
              /\ domains'[head] = domains[head]
              /\ removed' <=> domains'[tail] # domains[tail]
      ]_vars

\* the reverse arc of an ordering constraint has just been revised against a
\* head already pruned, and lost values of its tail
C18_Witness ==
    /\ pc = "arc"
    /\ removed
    /\ n_meetings = 2
    /\ last_arc.CONSTRAINT \notin constraints
    /\ last_arc.CONSTRAINT.OP \in {"<", ">"}
    /\ domains[last_arc.HEAD] # NodeConsistent[last_arc.HEAD]
    /\ domains[last_arc.TAIL] # NodeConsistent[last_arc.TAIL]

\* the values of the pool that every unary constraint on meeting i accepts
UnaryAccepted(i, values) ==
    {v \in values : \A c \in constraints :
        (c.ARITY = 1 /\ c.L_VAL = i) => Compare(c.OP, v, c.R_VAL)}

\* C19: each iteration of node_consistency leaves in the domain of its
\* variable exactly the previous values that every unary constraint on that
\* variable accepts; when node_consistency is over every domain is the pool
\* filtered that way, whatever the binary constraints are, and the domain of
\* a variable without unary constraint is the whole pool.
C19_NodeConsistencyResult ==
    /\ [](pc \in {"node", "arc_init"} =>
             \A i \in Vars :
                 /\ i < set_domain => domains[i] = UnaryAccepted(i, Pool)
                 /\ i >= set_domain => domains[i] = Pool
                 /\ (\A c \in constraints : c.ARITY = 1 => c.L_VAL # i)
                        => domains[i] = Pool)
    /\ [][pc = "node" =>
             domains'[set_domain] = UnaryAccepted(set_domain, domains[set_domain])]_vars

\* node_consistency is over: a unary constraint cut the domain of one
\* meeting, the other meeting, bound by a binary constraint alone, keeps the pool
C19_Witness ==
    /\ pc = "arc_init"
    /\ n_meetings = 2
    /\ set_domain = 2
    /\ HasUnary
    /\ HasBinary
    /\ \E i, j \in Vars : /\ domains[i] # Pool
                          /\ domains[i] # {}
                          /\ domains[j] = Pool

\* variable i has a pair in the assignment
Assigned(asg, i) == \E k \in 1..Len(asg) : asg[k][1] = i

\* the value paired with variable i
ValueOf(asg, i) == asg[CHOOSE k \in 1..Len(asg) : asg[k][1] = i][2]

\* some constraint with its variables assigned rejects their values
Rejects(asg, c) ==
    /\ Assigned(asg, c.L_VAL)
    /\ \/ c.ARITY = 1 /\ ~Compare(c.OP, ValueOf(asg, c.L_VAL), c.R_VAL)
       \/ /\ c.ARITY = 2
          /\ Assigned(asg, c.R_VAL)
          /\ ~Compare(c.OP, ValueOf(asg, c.L_VAL), ValueOf(asg, c.R_VAL))

\* C20: on an assignment built by the search, is_consistent returns false
\* (the pushed pair is popped and the loop goes on) if and only if some
\* constraint has its left variable assigned and either is unary and rejects
\* that variable's value or is binary with its right variable assigned too
\* and rejects the pair; constraints with an unassigned variable are skipped.
C20_ConsistencyCheck ==
    [][pc = "check" =>
          ((pc' = "loop") <=> \E c \in constraints : Rejects(assignment, c))
      ]_vars

\* is_consistent is called on the first meeting's pair alone: a unary
\* constraint rejects its value, and a binary constraint whose other variable
\* is not assigned yet is present
C20_Witness ==
    /\ pc = "check"
    /\ n_meetings = 2
    /\ Len(assignment) = 1
    /\ \E c \in constraints : c.ARITY = 1 /\ Rejects(assignment, c)
    /\ \E c \in constraints :
           /\ c.ARITY = 2
           /\ ~(Assigned(assignment, c.L_VAL) /\ Assigned(assignment, c.R_VAL))

\* C21: in every state of the search started by solve the pair at position k
\* of the assignment (counted from 0) holds variable k, so for every
\* constraint the positional reads of is_consistent -- the test
\* L_VAL >= len(assignment), assignment[L_VAL], and right_date for R_VAL --
\* treat exactly the unassigned variables as unassigned and read the value
\* paired with the variable itself.
C21_PositionalAssignment ==
    (Searching /\ phase = "solve") =>
        /\ \A k \in 1..Len(assignment) : assignment[k][1] = k - 1
        /\ \A c \in constraints :
              /\ (c.L_VAL >= Len(assignment)) <=> ~Assigned(assignment, c.L_VAL)
              /\ c.L_VAL < Len(assignment) =>
                     assignment[c.L_VAL + 1][2] = ValueOf(assignment, c.L_VAL)
              /\ c.ARITY = 2 =>
                     right_date_of(assignment, c) =
                         IF Assigned(assignment, c.R_VAL)
                         THEN ValueOf(assignment, c.R_VAL)
                         ELSE None

\* is_consistent is about to read both variables of a binary constraint by
\* position on a full assignment whose values differ
C21_Witness ==
    /\ pc = "check"
    /\ phase = "solve"
    /\ n_meetings = 2
    /\ Len(assignment) = 2
    /\ assignment[1][2] # assignment[2][2]
    /\ \E c \in constraints : c.ARITY = 2 /\ c.L_VAL = 1 /\ c.R_VAL = 0

====
